---- MODULE Spec2Model ----
(***************************************************************************)
(* Model of the scan-dispatch-execute-reschedule loop of the BTC savings   *)
(* plan service: the Scanner (lambda/scheduler/scanner.ts), the Executor   *)
(* (lambda/transaction/executor.ts), the Exchange Client                   *)
(* (lambda/transaction/exchange-client.ts) and the execution queue         *)
(* declared in lib/constructs/scheduler-service.ts.                        *)
(***************************************************************************)
EXTENDS Integers, Sequences, FiniteSets, TLC

\* ----------------------------------------------------------------------
\* Bounds of the model
\* ----------------------------------------------------------------------

\* Scanner invocations that may run (and overlap) in one behaviour.
MaxScans == 2

\* Infrastructure calls (store, queue, event bus, secret store) that may fail.
MaxFaults == 1

\* Clock steps of one day each.
MaxTicks == 1

\* ----------------------------------------------------------------------
\* Program constants
\* ----------------------------------------------------------------------

\* process.env.MAX_RETRIES default (executor.ts) = props.maxRetries || 3
MAX_RETRIES == 3

\* deadLetterQueue.maxReceiveCount of the execution queue
maxReceiveCount == 3

\* SqsEventSource batchSize of the executor
batchSize == 5

SecondsPerDay == 86400

\* 2024-01-15T00:00:00Z, the instant the clock starts at.
T0 == 1705276800

PlanIds == {"p1", "p2"}

Runs == 1..MaxScans

\* SavingsPlanStatus (types.ts)
ACTIVE == "ACTIVE"
PAUSED == "PAUSED"
PENDING_EXECUTION == "PENDING_EXECUTION"
EXECUTING == "EXECUTING"
CANCELLED == "CANCELLED"
FAILED == "FAILED"

\* EventType (types.ts)
EXECUTION_SCHEDULED == "EXECUTION_SCHEDULED"
EXECUTION_STARTED == "EXECUTION_STARTED"
EXECUTION_COMPLETED == "EXECUTION_COMPLETED"
EXECUTION_FAILED == "EXECUTION_FAILED"

\* ----------------------------------------------------------------------
\* Calendar arithmetic of the JavaScript Date object (process time zone UTC)
\* ----------------------------------------------------------------------

\* Days since 1970-01-01 of the civil date y-m-d (m in 1..12, d >= 1).
DaysFromCivil(y, m, d) ==
  LET yy  == IF m <= 2 THEN y - 1 ELSE y
      era == yy \div 400
      yoe == yy - era * 400
      mp  == IF m > 2 THEN m - 3 ELSE m + 9
      doy == (153 * mp + 2) \div 5 + d - 1
      doe == yoe * 365 + yoe \div 4 - yoe \div 100 + doy
  IN  era * 146097 + doe - 719468

\* Civil date [y, m, d] of a number of days since 1970-01-01.
CivilFromDays(z) ==
  LET zz  == z + 719468
      era == zz \div 146097
      doe == zz - era * 146097
      yoe == (doe - doe \div 1460 + doe \div 36524 - doe \div 146096) \div 365
      doy == doe - (365 * yoe + yoe \div 4 - yoe \div 100)
      mp  == (5 * doy + 2) \div 153
      d   == doy - (153 * mp + 2) \div 5 + 1
      m   == IF mp < 10 THEN mp + 3 ELSE mp - 9
      y   == yoe + era * 400 + (IF m <= 2 THEN 1 ELSE 0)
  IN  [y |-> y, m |-> m, d |-> d]

\* Mutant of SetDate: a day beyond the month's end is cut back to the
\* month's last day.
SetDate_Clamped(t, date) ==
  LET c   == CivilFromDays(t \div SecondsPerDay)
      len == (IF c.m = 12 THEN DaysFromCivil(c.y + 1, 1, 1)
                          ELSE DaysFromCivil(c.y, c.m + 1, 1))
               - DaysFromCivil(c.y, c.m, 1)
      d   == IF date > len THEN len ELSE date
  IN  (DaysFromCivil(c.y, c.m, 1) + d - 1) * SecondsPerDay + (t % SecondsPerDay)

\* Date.prototype.setDate(date): same year, month and time of day, day of
\* month replaced; a day beyond the month's end runs into the next month.
SetDate(t, date) ==
  LET c == CivilFromDays(t \div SecondsPerDay)
  IN  (DaysFromCivil(c.y, c.m, 1) + date - 1) * SecondsPerDay + (t % SecondsPerDay)

\* Date.prototype.setMonth(month) with month in 0..12: the day of month is
\* kept, so a day the target month does not have runs into the month after.
SetMonth(t, month) ==
  LET c  == CivilFromDays(t \div SecondsPerDay)
      y2 == c.y + (month \div 12)
      m2 == (month % 12) + 1
  IN  (DaysFromCivil(y2, m2, 1) + c.d - 1) * SecondsPerDay + (t % SecondsPerDay)

GetDate(t) == CivilFromDays(t \div SecondsPerDay).d

GetMonth(t) == CivilFromDays(t \div SecondsPerDay).m - 1

SupportedFrequencies == {"DAILY", "WEEKLY", "BIWEEKLY", "MONTHLY"}

\* calculateNextExecutionTime(frequency, from), from in whole epoch seconds.
\* Defined for the supported frequencies; the default branch throws.
calculateNextExecutionTime(frequency, from) ==
  CASE frequency = "DAILY"    -> SetDate(from, GetDate(from) + 1)
    [] frequency = "WEEKLY"   -> SetDate(from, GetDate(from) + 7)
    [] frequency = "BIWEEKLY" -> SetDate(from, GetDate(from) + 14)
    [] frequency = "MONTHLY"  -> SetMonth(from, GetMonth(from) + 1)

\* ----------------------------------------------------------------------
\* State
\* ----------------------------------------------------------------------

VARIABLES
  now,            \* the clock, whole epoch seconds
  env,            \* process environment: STAGE, MAX_BATCH_SIZE
  plans,          \* Plan Store: the savings plans table, by plan key
  txns,           \* Transaction Store: the rows of the transactions table
  queue,          \* execution queue: the messages waiting, oldest first
  dlq,            \* dead-letter queue
  events,         \* events put on the event bus
  scan,           \* the Scanner invocations
  exec,           \* the Executor invocation
  exchangeClient, \* the Executor's module-level exchange client
  faults,         \* infrastructure calls that have failed so far
  ticks,          \* clock steps taken so far
  sent,           \* history: sendMessage calls that succeeded, per executionId
  purchases,      \* history: purchaseBitcoin calls, per executionId
  advances,       \* history: schedule writes, per executionId
  lastWriter      \* history: who wrote each plan's status last

vars == <<now, env, plans, txns, queue, dlq, events, scan, exec,
          exchangeClient, faults, ticks, sent, purchases, advances, lastWriter>>

\* A row that is absent from the plans table.
NoPlan == [exists |-> FALSE, status |-> "NONE", nextExecutionTime |-> 0,
           frequency |-> "NONE", amount |-> 0, sourceOfFunds |-> "NONE"]

\* uuidv4() of processPlansForExecution: one fresh id per run and plan.
ExecutionId(r, p) == <<r, p>>

\* executionIds of the tasks an Executor invocation may be handed by a
\* producer other than the Scanner.
ForeignIds == {<<0, p>> : p \in PlanIds}

ExecutionIds == {ExecutionId(r, p) : r \in Runs, p \in PlanIds} \cup ForeignIds

CanFail == faults < MaxFaults

\* ----------------------------------------------------------------------
\* Scanner (lambda/scheduler/scanner.ts)
\* ----------------------------------------------------------------------

\* History of a run, per plan: the call of processPlansForExecution that
\* failed (failed) and what became of the catch block's write (revert).
IdleScan == [pc |-> "idle", now |-> 0, eligible |-> {},
             item |-> [p \in PlanIds |-> "none"],
             failed |-> [p \in PlanIds |-> "none"],
             revert |-> [p \in PlanIds |-> "none"]]

\* Mutant of IsDue: the key condition without the status.
IsDue_AnyStatus(plan, t) ==
  plan.exists /\ plan.nextExecutionTime <= t

\* KeyConditionExpression '#status = :status AND #nextExecution <= :now'
IsDue(plan, t) ==
  plan.exists /\ plan.status = ACTIVE /\ plan.nextExecutionTime <= t

Min(a, b) == IF a <= b THEN a ELSE b

\* Mutant of queryDue: the query has no Limit.
queryDue_NoLimit(t, limit) ==
  {{p \in PlanIds : IsDue(plans[p], t)}}

\* dynamoDB.query on StatusNextExecutionIndex with Limit: the possible
\* result sets (which of the due plans come first is not determined).
queryDue(t, limit) ==
  LET due == {p \in PlanIds : IsDue(plans[p], t)}
  IN  {S \in SUBSET due : Cardinality(S) = Min(limit, Cardinality(due))}

\* Mutant of ScannerStatusWrite: the update expression sets updatedAt only.
ScannerStatusWrite_NoStatus(p, status) == plans

\* updatePlanStatus of the Scanner: SET status with
\* ConditionExpression attribute_exists(planId).
ScannerStatusWrite(p, status) ==
  [plans EXCEPT ![p].status = status]

\* handler, line 55: the invocation reads the clock; the query is awaited.
ScanStart(r) ==
  /\ scan[r].pc = "idle"
  /\ \A q \in Runs : q < r => scan[q].pc # "idle"
  /\ scan' = [scan EXCEPT ![r].pc = "query", ![r].now = now]
  /\ UNCHANGED <<now, env, plans, txns, queue, dlq, events, exec,
                 exchangeClient, faults, ticks, sent, purchases, advances,
                 lastWriter>>

\* handler, lines 60-93: the store executes the query with the clock
\* reading of line 55 on the table as it is now; the handler returns on an
\* empty result and fans out over the items otherwise.
ScanQuery(r) ==
  /\ scan[r].pc = "query"
  /\ \/ \E S \in queryDue(scan[r].now, env.MAX_BATCH_SIZE) :
          /\ scan' = [scan EXCEPT ![r] =
                [pc |-> IF S = {} THEN "done" ELSE "processing",
                 now |-> scan[r].now,
                 eligible |-> {p \in PlanIds :
                                 /\ plans[p].exists
                                 /\ plans[p].status = "ACTIVE"
                                 /\ plans[p].nextExecutionTime <= scan[r].now},
                 item |-> [p \in PlanIds |->
                             IF p \in S THEN "update" ELSE "none"],
                 failed |-> [p \in PlanIds |-> "none"],
                 revert |-> [p \in PlanIds |-> "none"]]]
          /\ UNCHANGED faults
     \/ /\ CanFail
        /\ scan' = [scan EXCEPT ![r].pc = "error"]
        /\ faults' = faults + 1
  /\ UNCHANGED <<now, env, plans, txns, queue, dlq, events, exec,
                 exchangeClient, ticks, sent, purchases, advances, lastWriter>>

\* processPlansForExecution: await updatePlanStatus(plan, PENDING_EXECUTION)
ScanUpdate(r, p) ==
  /\ scan[r].pc = "processing"
  /\ scan[r].item[p] = "update"
  /\ \/ /\ plans[p].exists
        /\ plans' = ScannerStatusWrite(p, PENDING_EXECUTION)
        /\ lastWriter' = [lastWriter EXCEPT ![p] = <<"scanner", r>>]
        /\ scan' = [scan EXCEPT ![r].item[p] = "send"]
        /\ UNCHANGED faults
     \/ /\ ~plans[p].exists        \* ConditionalCheckFailedException
        /\ scan' = [scan EXCEPT ![r].item[p] = "revert",
                                ![r].failed[p] = "precondition"]
        /\ UNCHANGED <<plans, lastWriter, faults>>
     \/ /\ CanFail
        /\ scan' = [scan EXCEPT ![r].item[p] = "revert",
                                ![r].failed[p] = "update"]
        /\ faults' = faults + 1
        /\ UNCHANGED <<plans, lastWriter>>
  /\ UNCHANGED <<now, env, txns, queue, dlq, events, exec, exchangeClient,
                 ticks, sent, purchases, advances>>

\* plan.userId: the owner of a plan; the two plans have the same owner.
UserOf(p) == "u1"

\* Mutant of NewMessage: the message group is the plan, not its owner.
NewMessage_GroupByPlan(r, p) ==
  [messageId |-> ExecutionId(r, p),
   body |-> [userId |-> UserOf(p), planId |-> p,
             executionId |-> ExecutionId(r, p), attemptCount |-> 0],
   deduplicationId |-> ExecutionId(r, p),
   groupId |-> p,
   receiveCount |-> 0]

\* The SchedulerExecutionEvent the Scanner sends, as the queue holds it:
\* the body, MessageDeduplicationId and MessageGroupId of sendMessage.
NewMessage(r, p) ==
  [messageId |-> ExecutionId(r, p),
   body |-> [userId |-> UserOf(p), planId |-> p,
             executionId |-> ExecutionId(r, p), attemptCount |-> 0],
   deduplicationId |-> ExecutionId(r, p),
   groupId |-> UserOf(p),
   receiveCount |-> 0]

\* Mutant of ScanSend: a failed send is logged and the run goes on to the
\* publish.
ScanSend_PublishAnyway(r, p) ==
  /\ scan[r].pc = "processing"
  /\ scan[r].item[p] = "send"
  /\ \/ /\ queue' = Append(queue, NewMessage(r, p))
        /\ sent' = [sent EXCEPT ![ExecutionId(r, p)] = @ + 1]
        /\ scan' = [scan EXCEPT ![r].item[p] = "publish"]
        /\ UNCHANGED faults
     \/ /\ CanFail
        /\ scan' = [scan EXCEPT ![r].item[p] = "publish",
                                ![r].failed[p] = "send"]
        /\ faults' = faults + 1
        /\ UNCHANGED <<queue, sent>>
  /\ UNCHANGED <<now, env, plans, txns, dlq, events, exec, exchangeClient,
                 ticks, purchases, advances, lastWriter>>

\* processPlansForExecution: await sqs.sendMessage(...)
ScanSend(r, p) ==
  /\ scan[r].pc = "processing"
  /\ scan[r].item[p] = "send"
  /\ \/ /\ queue' = Append(queue, NewMessage(r, p))
        /\ sent' = [sent EXCEPT ![ExecutionId(r, p)] = @ + 1]
        /\ scan' = [scan EXCEPT ![r].item[p] = "publish"]
        /\ UNCHANGED faults
     \/ /\ CanFail
        /\ scan' = [scan EXCEPT ![r].item[p] = "revert",
                                ![r].failed[p] = "send"]
        /\ faults' = faults + 1
        /\ UNCHANGED <<queue, sent>>
  /\ UNCHANGED <<now, env, plans, txns, dlq, events, exec, exchangeClient,
                 ticks, purchases, advances, lastWriter>>

\* processPlansForExecution: await eventBridge.putEvents(EXECUTION_SCHEDULED)
ScanPublish(r, p) ==
  /\ scan[r].pc = "processing"
  /\ scan[r].item[p] = "publish"
  /\ \/ /\ events' = events \cup
                {[type |-> EXECUTION_SCHEDULED,
                  executionId |-> ExecutionId(r, p)]}
        /\ scan' = [scan EXCEPT ![r].item[p] = "fulfilled"]
        /\ UNCHANGED faults
     \/ /\ CanFail
        /\ scan' = [scan EXCEPT ![r].item[p] = "revert",
                                ![r].failed[p] = "publish"]
        /\ faults' = faults + 1
        /\ UNCHANGED events
  /\ UNCHANGED <<now, env, plans, txns, queue, dlq, exec, exchangeClient,
                 ticks, sent, purchases, advances, lastWriter>>

\* processPlansForExecution, catch block: updatePlanStatus(plan, ACTIVE),
\* its own failure logged and dropped, then the error is rethrown.
ScanRevert(r, p) ==
  /\ scan[r].pc = "processing"
  /\ scan[r].item[p] = "revert"
  /\ \/ /\ plans[p].exists
        /\ plans' = ScannerStatusWrite(p, ACTIVE)
        /\ lastWriter' = [lastWriter EXCEPT ![p] = <<"scanner", r>>]
        /\ scan' = [scan EXCEPT ![r].item[p] = "rejected",
                                ![r].revert[p] = "written"]
        /\ UNCHANGED faults
     \/ /\ ~plans[p].exists
        /\ scan' = [scan EXCEPT ![r].item[p] = "rejected",
                                ![r].revert[p] = "lost"]
        /\ UNCHANGED <<plans, lastWriter, faults>>
     \/ /\ CanFail
        /\ scan' = [scan EXCEPT ![r].item[p] = "rejected",
                                ![r].revert[p] = "lost"]
        /\ faults' = faults + 1
        /\ UNCHANGED <<plans, lastWriter>>
  /\ UNCHANGED <<now, env, txns, queue, dlq, events, exec, exchangeClient,
                 ticks, sent, purchases, advances>>

\* Mutant of ScanFinish: the handler goes on when the first plan has
\* settled instead of waiting for all of them.
ScanFinish_AnySettled(r) ==
  /\ scan[r].pc = "processing"
  /\ \E p \in PlanIds : scan[r].item[p] \in {"fulfilled", "rejected"}
  /\ scan' = [scan EXCEPT ![r].pc =
        IF \E p \in PlanIds : scan[r].item[p] = "rejected"
        THEN "error" ELSE "done"]
  /\ UNCHANGED <<now, env, plans, txns, queue, dlq, events, exec,
                 exchangeClient, faults, ticks, sent, purchases, advances,
                 lastWriter>>

\* Mutant of ScanFinish: the handler throws only when every plan of the
\* batch was rejected.
ScanFinish_AllRejected(r) ==
  /\ scan[r].pc = "processing"
  /\ \A p \in PlanIds : scan[r].item[p] \in {"none", "fulfilled", "rejected"}
  /\ scan' = [scan EXCEPT ![r].pc =
        IF \A p \in PlanIds : scan[r].item[p] \in {"none", "rejected"}
        THEN "error" ELSE "done"]
  /\ UNCHANGED <<now, env, plans, txns, queue, dlq, events, exec,
                 exchangeClient, faults, ticks, sent, purchases, advances,
                 lastWriter>>

\* handler: after Promise.allSettled, throw if any plan was rejected.
ScanFinish(r) ==
  /\ scan[r].pc = "processing"
  /\ \A p \in PlanIds : scan[r].item[p] \in {"none", "fulfilled", "rejected"}
  /\ scan' = [scan EXCEPT ![r].pc =
        IF \E p \in PlanIds : scan[r].item[p] = "rejected"
        THEN "error" ELSE "done"]
  /\ UNCHANGED <<now, env, plans, txns, queue, dlq, events, exec,
                 exchangeClient, faults, ticks, sent, purchases, advances,
                 lastWriter>>

\* ----------------------------------------------------------------------
\* Exchange Client (lambda/transaction/exchange-client.ts)
\* ----------------------------------------------------------------------

NoResult == [success |-> FALSE, errorMessage |-> "NONE", requestId |-> <<>>,
             timestamp |-> 0]

\* Mutant of purchaseBitcoin: the failed result carries no request id.
purchaseBitcoin_NoRequestId(request) ==
  { [success |-> TRUE, errorMessage |-> "NONE", requestId |-> <<>>,
     timestamp |-> 0],
    [success |-> FALSE, errorMessage |-> "Exchange API temporary error",
     requestId |-> <<>>, timestamp |-> now] }

\* purchaseBitcoin(request): the results the simulated exchange can return.
\* An error inside the try block is caught and returned as a failed result
\* whose errorDetails are the time of the failure (timestamp) and
\* request.clientRequestId (requestId); a successful result has none. The
\* amounts of a successful result (exchangeRate, bitcoinAmount, fees) and
\* its exchangeTransactionId are drawn at random by the code and read by
\* no step of the handlers but the copy into the transaction row; they
\* are left out of the result.
purchaseBitcoin(request) ==
  { [success |-> TRUE, errorMessage |-> "NONE", requestId |-> <<>>,
     timestamp |-> 0],
    [success |-> FALSE, errorMessage |-> "Exchange API temporary error",
     requestId |-> request.clientRequestId, timestamp |-> now] }

\* BitcoinExchangeClient.createFromSecrets(secretId, stage): the client it
\* returns, or "throws" when it rethrows the secret store's error.
createFromSecrets(stage, secretOk) ==
  IF secretOk THEN "real"
  ELSE IF stage = "dev" THEN "demo"
  ELSE "throws"

\* ----------------------------------------------------------------------
\* Executor (lambda/transaction/executor.ts)
\* ----------------------------------------------------------------------

NoTxn == [transactionId |-> 0, planId |-> "NONE", status |-> "NONE",
          errorMessage |-> "NONE", executionId |-> <<>>, attemptCount |-> 0,
          amount |-> 0]

\* History of one processExecutionEvent call: the calls it has made, the
\* branch it took (route), how it ended (outcome) and the clock reading
\* its next execution time was computed from.
NoAttempt == [purchases |-> 0, planWrites |-> 0, txns |-> 0, events |-> 0,
              failedCalls |-> 0, route |-> "none", outcome |-> "none",
              referenceTime |-> 0]

NoRequest == [userId |-> "NONE", amount |-> 0, sourceOfFunds |-> "NONE",
              clientRequestId |-> <<>>]

IdleExec == [pc |-> "idle", batch |-> <<>>, idx |-> 0, failures |-> <<>>,
             plan |-> NoPlan, request |-> NoRequest, result |-> NoResult,
             txn |-> NoTxn,
             nextExecutionTime |-> 0, att |-> NoAttempt]

\* The record processExecutionEvent is working on, and its parsed body.
Record == exec.batch[exec.idx]

Task == Record.body

\* `Maximum retry attempts (${MAX_RETRIES}) exceeded`
MaxRetriesMessage == "Maximum retry attempts (3) exceeded"

\* uuidv4() of a transaction: an id no row of the table has.
NewTransactionId == Cardinality(txns) + 1

\* recordTransaction: put with attribute_not_exists(transactionId); TRUE
\* when the condition holds.
CanRecord(t) == \A o \in txns : o.transactionId # t.transactionId

\* Mutant of ExecutorStatusWrite: the update also clears the schedule.
ExecutorStatusWrite_ClearsSchedule(p, status) ==
  [plans EXCEPT ![p].status = status, ![p].nextExecutionTime = 0]

\* updatePlanStatus of the Executor: SET status with
\* ConditionExpression attribute_exists(planId).
ExecutorStatusWrite(p, status) ==
  [plans EXCEPT ![p].status = status]

\* Mutant of updatePlanWithNextExecution: the status is set, the schedule
\* is left as it was.
updatePlanWithNextExecution_StatusOnly(p, nextExecutionTime) ==
  [plans EXCEPT ![p].status = ACTIVE]

\* updatePlanWithNextExecution: SET status = ACTIVE, nextExecutionTime.
updatePlanWithNextExecution(p, nextExecutionTime) ==
  [plans EXCEPT ![p].status = ACTIVE,
                ![p].nextExecutionTime = nextExecutionTime]

\* publishEvent(eventType, detail)
Event(type, executionId) == [type |-> type, executionId |-> executionId]

\* A call of the current attempt failed and its error propagates out of
\* processExecutionEvent (catch, log, rethrow).
Throw(e, outcome) ==
  [e EXCEPT !.pc = "thrown",
            !.att.failedCalls = @ + 1,
            !.att.outcome = outcome]

\* The local state of processExecutionEvent when it is entered.
Entered(route) ==
  [exec EXCEPT !.plan = NoPlan, !.request = NoRequest, !.result = NoResult,
               !.txn = NoTxn,
               !.nextExecutionTime = 0,
               !.att = [NoAttempt EXCEPT !.route = route]]

\* Mutant of Receivable: a message is moved to the dead-letter queue one
\* receive too late.
Receivable_OneMore(m) == m.receiveCount <= maxReceiveCount

\* Messages of the queue that may be received: the redrive policy moves a
\* message received maxReceiveCount times to the dead-letter queue.
Receivable(m) == m.receiveCount < maxReceiveCount

Received(m) == [m EXCEPT !.receiveCount = @ + 1]

\* handler, lines 46-54: a batch of up to batchSize messages is delivered:
\* the messages leave the queue and their receive count goes up. With a
\* client the loop starts; without one the handler awaits createFromSecrets.
ExecReceive ==
  /\ exec.pc = "idle"
  /\ \E n \in 1..Min(batchSize, Len(queue)) :
       /\ \A i \in 1..n : Receivable(queue[i])
       /\ exec' = [IdleExec EXCEPT
                     !.pc = IF exchangeClient = "null" THEN "init"
                            ELSE "start",
                     !.batch = [i \in 1..n |-> Received(queue[i])],
                     !.idx = 1]
       /\ queue' = SubSeq(queue, n + 1, Len(queue))
  /\ UNCHANGED <<now, env, plans, txns, dlq, events, scan, exchangeClient,
                 faults, ticks, sent, purchases, advances, lastWriter>>

\* Mutant of ExecCreateClient: a failed creation of the client is ignored
\* and the loop starts without one.
ExecCreateClient_IgnoresCreationError ==
  /\ exec.pc = "init"
  /\ \E secretOk \in BOOLEAN :
       /\ secretOk \/ CanFail
       /\ faults' = IF secretOk THEN faults ELSE faults + 1
       /\ LET c == createFromSecrets(env.STAGE, secretOk)
          IN  IF c = "throws"
              THEN /\ exec' = [exec EXCEPT !.pc = "start"]
                   /\ UNCHANGED <<exchangeClient, queue>>
              ELSE /\ exec' = [exec EXCEPT !.pc = "start"]
                   /\ exchangeClient' = c
                   /\ UNCHANGED queue
  /\ UNCHANGED <<now, env, plans, txns, dlq, events, scan, ticks, sent,
                 purchases, advances, lastWriter>>

\* handler, lines 54-59: createFromSecrets returns and the client is
\* assigned, or it throws and the invocation fails: the whole batch becomes
\* visible again.
ExecCreateClient ==
  /\ exec.pc = "init"
  /\ \E secretOk \in BOOLEAN :
       /\ secretOk \/ CanFail
       /\ faults' = IF secretOk THEN faults ELSE faults + 1
       /\ LET c == createFromSecrets(env.STAGE, secretOk)
          IN  IF c = "throws"
              THEN /\ exec' = IdleExec
                   /\ queue' = exec.batch \o queue
                   /\ UNCHANGED exchangeClient
              ELSE /\ exec' = [exec EXCEPT !.pc = "start"]
                   /\ exchangeClient' = c
                   /\ UNCHANGED queue
  /\ UNCHANGED <<now, env, plans, txns, dlq, events, scan, ticks, sent,
                 purchases, advances, lastWriter>>

\* Line 34: a new process of the Executor loads the module, and its
\* exchangeClient is null until its first invocation has created one.
ExecProcessStart ==
  /\ exec.pc = "idle"
  /\ exchangeClient # "null"
  /\ exchangeClient' = "null"
  /\ UNCHANGED <<now, env, plans, txns, queue, dlq, events, scan, exec, faults,
                 ticks, sent, purchases, advances, lastWriter>>

\* Mutant of DeadLetter: the message is copied to the dead-letter queue and
\* stays in the execution queue.
DeadLetter_KeepsMessage ==
  /\ \E i \in 1..Len(queue) :
       /\ ~Receivable(queue[i])
       /\ dlq' = dlq \cup {queue[i]}
       /\ UNCHANGED queue
  /\ UNCHANGED <<now, env, plans, txns, events, scan, exec, exchangeClient,
                 faults, ticks, sent, purchases, advances, lastWriter>>

\* Redrive policy of the execution queue.
DeadLetter ==
  /\ \E i \in 1..Len(queue) :
       /\ ~Receivable(queue[i])
       /\ dlq' = dlq \cup {queue[i]}
       /\ queue' = SubSeq(queue, 1, i - 1) \o SubSeq(queue, i + 1, Len(queue))
  /\ UNCHANGED <<now, env, plans, txns, events, scan, exec, exchangeClient,
                 faults, ticks, sent, purchases, advances, lastWriter>>

\* processExecutionEvent, attemptCount < MAX_RETRIES: getSavingsPlan.
ExecGet ==
  /\ exec.pc = "start"
  /\ Task.attemptCount < MAX_RETRIES
  /\ \/ /\ plans[Task.planId].exists
        /\ exec' = [Entered("normal") EXCEPT !.pc = "setExecuting",
                                            !.plan = plans[Task.planId]]
        /\ UNCHANGED faults
     \/ /\ ~plans[Task.planId].exists
        /\ exec' = Throw(Entered("normal"), "notFound")
        /\ UNCHANGED faults
     \/ /\ CanFail
        /\ exec' = Throw(Entered("normal"), "storeError")
        /\ faults' = faults + 1
  /\ UNCHANGED <<now, env, plans, txns, queue, dlq, events, scan,
                 exchangeClient, ticks, sent, purchases, advances, lastWriter>>

\* A status write of the Executor for the current task: the next exec
\* record when it succeeds, the error thrown when the row is gone or the
\* store fails.
ExecStatusStep(status, nextPc) ==
  \/ /\ plans[Task.planId].exists
     /\ plans' = ExecutorStatusWrite(Task.planId, status)
     /\ lastWriter' = [lastWriter EXCEPT ![Task.planId] = <<"executor", 0>>]
     /\ exec' = [exec EXCEPT !.pc = nextPc, !.att.planWrites = @ + 1]
     /\ UNCHANGED faults
  \/ /\ ~plans[Task.planId].exists
     /\ exec' = Throw(exec, "conditionFailed")
     /\ UNCHANGED <<plans, lastWriter, faults>>
  \/ /\ CanFail
     /\ exec' = Throw(exec, "storeError")
     /\ faults' = faults + 1
     /\ UNCHANGED <<plans, lastWriter>>

\* A publishEvent call of the Executor for the current task, after which
\* processExecutionEvent goes on (nextPc) or ends with the given outcome.
ExecPublishStep(type, nextPc, outcome) ==
  \/ /\ events' = events \cup {Event(type, Task.executionId)}
     /\ exec' = [exec EXCEPT !.pc = nextPc, !.att.events = @ + 1,
                             !.att.outcome = outcome]
     /\ UNCHANGED faults
  \/ /\ CanFail
     /\ exec' = Throw(exec, "publishError")
     /\ faults' = faults + 1
     /\ UNCHANGED events

\* Mutant of ExecRecordStep: the put replaces the rows the table holds for
\* the same execution.
ExecRecordStep_Upsert(t, after) ==
  \/ /\ txns' = {o \in txns : o.executionId # t.executionId} \cup {t}
     /\ exec' = [after EXCEPT !.txn = t, !.att.txns = @ + 1]
     /\ UNCHANGED faults
  \/ /\ CanFail
     /\ exec' = Throw(exec, "storeError")
     /\ faults' = faults + 1
     /\ UNCHANGED txns

\* A recordTransaction call of the Executor for the current task; after is
\* the handler as it goes on, up to its next await, when the call returns.
ExecRecordStep(t, after) ==
  \/ /\ CanRecord(t)
     /\ txns' = txns \cup {t}
     /\ exec' = [after EXCEPT !.txn = t, !.att.txns = @ + 1]
     /\ UNCHANGED faults
  \/ /\ ~CanRecord(t)
     /\ exec' = Throw(exec, "conditionFailed")
     /\ UNCHANGED <<txns, faults>>
  \/ /\ CanFail
     /\ exec' = Throw(exec, "storeError")
     /\ faults' = faults + 1
     /\ UNCHANGED txns

\* processExecutionEvent: updatePlanStatus(plan, EXECUTING)
ExecSetExecuting ==
  /\ exec.pc = "setExecuting"
  /\ ExecStatusStep(EXECUTING, "pubStarted")
  /\ UNCHANGED <<now, env, txns, queue, dlq, events, scan, exchangeClient,
                 ticks, sent, purchases, advances>>

\* processExecutionEvent: publishEvent(EXECUTION_STARTED)
ExecPublishStarted ==
  /\ exec.pc = "pubStarted"
  /\ ExecPublishStep(EXECUTION_STARTED, "purchase", "none")
  /\ UNCHANGED <<now, env, plans, txns, queue, dlq, scan, exchangeClient,
                 ticks, sent, purchases, advances, lastWriter>>

\* Mutant of PurchaseRequest: the idempotency key changes with every
\* delivery of the task.
PurchaseRequest_KeyPerDelivery ==
  [userId |-> UserOf(Task.planId),
   amount |-> exec.plan.amount,
   sourceOfFunds |-> exec.plan.sourceOfFunds,
   clientRequestId |-> <<Record.receiveCount + MaxScans, Task.planId>>]

\* The PurchaseRequest of processExecutionEvent: the plan as loaded and the
\* task's executionId as clientRequestId.
PurchaseRequest ==
  [userId |-> UserOf(Task.planId),
   amount |-> exec.plan.amount,
   sourceOfFunds |-> exec.plan.sourceOfFunds,
   clientRequestId |-> Task.executionId]

\* processExecutionEvent: exchangeClient.purchaseBitcoin(...)
ExecPurchase ==
  /\ exec.pc = "purchase"
  /\ \E result \in purchaseBitcoin(PurchaseRequest) :
       exec' = [exec EXCEPT !.pc = "record", !.request = PurchaseRequest,
                            !.result = result, !.att.purchases = @ + 1]
  /\ purchases' = [purchases EXCEPT ![PurchaseRequest.clientRequestId] = @ + 1]
  /\ UNCHANGED <<now, env, plans, txns, queue, dlq, events, scan,
                 exchangeClient, faults, ticks, sent, advances, lastWriter>>

\* Mutant of PurchaseTransaction: the errorMessage of the result is dropped.
PurchaseTransaction_NoErrorMessage ==
  [transactionId |-> NewTransactionId,
   planId |-> Task.planId,
   status |-> IF exec.result.success THEN "COMPLETED" ELSE "FAILED",
   errorMessage |-> "",
   executionId |-> Task.executionId,
   attemptCount |-> Task.attemptCount,
   amount |-> exec.plan.amount]

\* The transaction row built from the purchase result.
PurchaseTransaction ==
  [transactionId |-> NewTransactionId,
   planId |-> Task.planId,
   status |-> IF exec.result.success THEN "COMPLETED" ELSE "FAILED",
   errorMessage |-> exec.result.errorMessage,
   executionId |-> Task.executionId,
   attemptCount |-> Task.attemptCount,
   amount |-> exec.plan.amount]

\* processExecutionEvent, line 162, purchase succeeded: the handler reads
\* the clock and computes the next execution time; calculateNextExecutionTime
\* throws in its default branch for a frequency it does not know.
Scheduled ==
  IF exec.plan.frequency \in SupportedFrequencies
  THEN [exec EXCEPT !.pc = "updateNext",
                    !.nextExecutionTime =
                       calculateNextExecutionTime(exec.plan.frequency, now),
                    !.att.referenceTime = now]
  ELSE [exec EXCEPT !.pc = "thrown", !.att.outcome = "unsupportedFrequency"]

\* Mutant of ExecRecord: the schedule is advanced after a failed purchase
\* as well.
ExecRecord_AlwaysAdvance ==
  /\ exec.pc = "record"
  /\ ExecRecordStep(PurchaseTransaction, Scheduled)
  /\ UNCHANGED <<now, env, plans, queue, dlq, events, scan, exchangeClient,
                 ticks, sent, purchases, advances, lastWriter>>

\* processExecutionEvent: recordTransaction(transaction); when it returns
\* the handler goes on to the schedule or to the FAILED status.
ExecRecord ==
  /\ exec.pc = "record"
  /\ ExecRecordStep(PurchaseTransaction,
                    IF exec.result.success THEN Scheduled
                    ELSE [exec EXCEPT !.pc = "setFailed"])
  /\ UNCHANGED <<now, env, plans, queue, dlq, events, scan, exchangeClient,
                 ticks, sent, purchases, advances, lastWriter>>

\* processExecutionEvent, line 165: updatePlanWithNextExecution writes the
\* next execution time computed at line 162.
ExecUpdateNext ==
  /\ exec.pc = "updateNext"
  /\ LET p == Task.planId
     IN  \/ /\ plans[p].exists
            /\ plans' = updatePlanWithNextExecution(p, exec.nextExecutionTime)
            /\ lastWriter' = [lastWriter EXCEPT ![p] = <<"executor", 0>>]
            /\ advances' = [advances EXCEPT ![Task.executionId] = @ + 1]
            /\ exec' = [exec EXCEPT !.pc = "pubCompleted",
                                    !.att.planWrites = @ + 1]
            /\ UNCHANGED faults
         \/ /\ ~plans[p].exists
            /\ exec' = Throw(exec, "conditionFailed")
            /\ UNCHANGED <<plans, lastWriter, advances, faults>>
         \/ /\ CanFail
            /\ exec' = Throw(exec, "storeError")
            /\ faults' = faults + 1
            /\ UNCHANGED <<plans, lastWriter, advances>>
  /\ UNCHANGED <<now, env, txns, queue, dlq, events, scan, exchangeClient,
                 ticks, sent, purchases>>

\* processExecutionEvent: publishEvent(EXECUTION_COMPLETED), then return.
ExecPublishCompleted ==
  /\ exec.pc = "pubCompleted"
  /\ ExecPublishStep(EXECUTION_COMPLETED, "ok", "success")
  /\ UNCHANGED <<now, env, plans, txns, queue, dlq, scan, exchangeClient,
                 ticks, sent, purchases, advances, lastWriter>>

\* processExecutionEvent, purchase failed: updatePlanStatus(plan, FAILED)
ExecSetFailed ==
  /\ exec.pc = "setFailed"
  /\ ExecStatusStep(FAILED, "pubFailed")
  /\ UNCHANGED <<now, env, txns, queue, dlq, events, scan, exchangeClient,
                 ticks, sent, purchases, advances>>

\* processExecutionEvent: publishEvent(EXECUTION_FAILED), then
\* throw new Error('Purchase failed: ...').
ExecPublishFailed ==
  /\ exec.pc = "pubFailed"
  /\ ExecPublishStep(EXECUTION_FAILED, "thrown", "purchaseFailed")
  /\ UNCHANGED <<now, env, plans, txns, queue, dlq, scan, exchangeClient,
                 ticks, sent, purchases, advances, lastWriter>>

\* handleMaxRetries: getSavingsPlan; its error is logged and rethrown.
MaxRetriesGet ==
  /\ exec.pc = "start"
  /\ Task.attemptCount >= MAX_RETRIES
  /\ \/ /\ plans[Task.planId].exists
        /\ exec' = [Entered("maxRetries") EXCEPT !.pc = "mrSetFailed",
                                                !.plan = plans[Task.planId]]
        /\ UNCHANGED faults
     \/ /\ ~plans[Task.planId].exists
        /\ exec' = Throw(Entered("maxRetries"), "notFound")
        /\ UNCHANGED faults
     \/ /\ CanFail
        /\ exec' = Throw(Entered("maxRetries"), "storeError")
        /\ faults' = faults + 1
  /\ UNCHANGED <<now, env, plans, txns, queue, dlq, events, scan,
                 exchangeClient, ticks, sent, purchases, advances, lastWriter>>

\* handleMaxRetries: updatePlanStatus(plan, FAILED)
MaxRetriesSetFailed ==
  /\ exec.pc = "mrSetFailed"
  /\ ExecStatusStep(FAILED, "mrRecord")
  /\ UNCHANGED <<now, env, txns, queue, dlq, events, scan, exchangeClient,
                 ticks, sent, purchases, advances>>

\* The synthetic transaction row of handleMaxRetries.
MaxRetriesTransaction ==
  [transactionId |-> NewTransactionId,
   planId |-> Task.planId,
   status |-> "FAILED",
   errorMessage |-> MaxRetriesMessage,
   executionId |-> Task.executionId,
   attemptCount |-> Task.attemptCount,
   amount |-> exec.plan.amount]

\* handleMaxRetries: recordTransaction(transaction)
MaxRetriesRecord ==
  /\ exec.pc = "mrRecord"
  /\ ExecRecordStep(MaxRetriesTransaction, [exec EXCEPT !.pc = "mrPublish"])
  /\ UNCHANGED <<now, env, plans, queue, dlq, events, scan, exchangeClient,
                 ticks, sent, purchases, advances, lastWriter>>

\* handleMaxRetries: publishEvent(EXECUTION_FAILED), then return.
MaxRetriesPublish ==
  /\ exec.pc = "mrPublish"
  /\ ExecPublishStep(EXECUTION_FAILED, "ok", "success")
  /\ UNCHANGED <<now, env, plans, txns, queue, dlq, scan, exchangeClient,
                 ticks, sent, purchases, advances, lastWriter>>

\* Mutant of ExecLoop: the catch of the loop does not push the messageId.
ExecLoop_NoItemFailure ==
  /\ exec.pc \in {"ok", "thrown"}
  /\ exec' = [exec EXCEPT
        !.pc = IF exec.idx < Len(exec.batch) THEN "start" ELSE "return",
        !.idx = IF exec.idx < Len(exec.batch) THEN @ + 1 ELSE @]
  /\ UNCHANGED <<now, env, plans, txns, queue, dlq, events, scan,
                 exchangeClient, faults, ticks, sent, purchases, advances,
                 lastWriter>>

\* Mutant of ExecLoop: the first record whose processing throws ends the
\* loop.
ExecLoop_StopsAtFailure ==
  /\ exec.pc \in {"ok", "thrown"}
  /\ exec' = [exec EXCEPT
        !.failures = IF exec.pc = "thrown"
                     THEN Append(@, Record.messageId) ELSE @,
        !.pc = IF exec.idx < Len(exec.batch) /\ exec.pc = "ok"
               THEN "start" ELSE "return",
        !.idx = IF exec.idx < Len(exec.batch) /\ exec.pc = "ok"
                THEN @ + 1 ELSE @]
  /\ UNCHANGED <<now, env, plans, txns, queue, dlq, events, scan,
                 exchangeClient, faults, ticks, sent, purchases, advances,
                 lastWriter>>

\* handler, lines 66-75: a record whose processing threw is added to
\* batchItemFailures; the loop goes on with the next record.
ExecLoop ==
  /\ exec.pc \in {"ok", "thrown"}
  /\ exec' = [exec EXCEPT
        !.failures = IF exec.pc = "thrown"
                     THEN Append(@, Record.messageId) ELSE @,
        !.pc = IF exec.idx < Len(exec.batch) THEN "start" ELSE "return",
        !.idx = IF exec.idx < Len(exec.batch) THEN @ + 1 ELSE @]
  /\ UNCHANGED <<now, env, plans, txns, queue, dlq, events, scan,
                 exchangeClient, faults, ticks, sent, purchases, advances,
                 lastWriter>>

InFailures(m) == \E i \in 1..Len(exec.failures) : exec.failures[i] = m.messageId

\* handler, line 85: the batch response; the queue deletes the records
\* not listed and makes the listed ones visible again, in their order.
ExecReturn ==
  /\ exec.pc = "return"
  /\ queue' = SelectSeq(exec.batch, InFailures) \o queue
  /\ exec' = IdleExec
  /\ UNCHANGED <<now, env, plans, txns, dlq, events, scan, exchangeClient,
                 faults, ticks, sent, purchases, advances, lastWriter>>

\* ----------------------------------------------------------------------
\* Environment
\* ----------------------------------------------------------------------

\* Time passes, also between a handler's reading of the clock and the
\* call it awaits next.
Tick ==
  /\ ticks < MaxTicks
  /\ ticks' = ticks + 1
  /\ now' = now + SecondsPerDay
  /\ UNCHANGED <<env, plans, txns, queue, dlq, events, scan, exec,
                 exchangeClient, faults, sent, purchases, advances, lastWriter>>

\* The plan's owner deletes the plan (outside the core).
PlanDeleted(p) ==
  /\ plans[p].exists
  /\ plans' = [plans EXCEPT ![p] = NoPlan]
  /\ lastWriter' = [lastWriter EXCEPT ![p] = <<"owner", 0>>]
  /\ UNCHANGED <<now, env, txns, queue, dlq, events, scan, exec,
                 exchangeClient, faults, ticks, sent, purchases, advances>>

\* The plan's owner pauses or cancels the plan (outside the core).
PlanStatusSet(p, status) ==
  /\ plans[p].exists
  /\ plans[p].status # status
  /\ plans' = [plans EXCEPT ![p].status = status]
  /\ lastWriter' = [lastWriter EXCEPT ![p] = <<"owner", 0>>]
  /\ UNCHANGED <<now, env, txns, queue, dlq, events, scan, exec,
                 exchangeClient, faults, ticks, sent, purchases, advances>>

\* ----------------------------------------------------------------------
\* Specifications
\* ----------------------------------------------------------------------

Stages == {"dev", "staging", "prod"}

BatchSizes == {1, 25}

\* The rows a plan may start with: active or paused, due or not yet due.
InitialPlans ==
  { [exists |-> TRUE, status |-> st, nextExecutionTime |-> t,
     frequency |-> f, amount |-> 100, sourceOfFunds |-> "bank-1"] :
      st \in {ACTIVE, PAUSED}, t \in {T0 - 1, T0 + 1}, f \in {"WEEKLY"} }

InitCommon ==
  /\ now = T0
  /\ txns = {}
  /\ dlq = {}
  /\ events = {}
  /\ scan = [r \in Runs |-> IdleScan]
  /\ exec = IdleExec
  /\ exchangeClient = "null"
  /\ faults = 0
  /\ ticks = 0
  /\ sent = [e \in ExecutionIds |-> 0]
  /\ purchases = [e \in ExecutionIds |-> 0]
  /\ advances = [e \in ExecutionIds |-> 0]
  /\ lastWriter = [p \in PlanIds |-> <<"none", 0>>]

\* The pipeline: one plan in the table, nothing in the queue.
Init ==
  /\ InitCommon
  /\ env = [STAGE |-> "dev", MAX_BATCH_SIZE |-> 25]
  /\ plans \in {f \in [PlanIds -> InitialPlans \cup {NoPlan}] :
                  f["p2"] = NoPlan /\ f["p1"].status = ACTIVE}
  /\ queue = <<>>

Scanner ==
  \E r \in Runs :
    \/ ScanStart(r)
    \/ ScanQuery(r)
    \/ ScanFinish(r)
    \/ \E p \in PlanIds :
         ScanUpdate(r, p) \/ ScanSend(r, p) \/ ScanPublish(r, p)
           \/ ScanRevert(r, p)

Executor ==
  \/ ExecReceive
  \/ ExecCreateClient
  \/ ExecGet
  \/ ExecSetExecuting
  \/ ExecPublishStarted
  \/ ExecPurchase
  \/ ExecRecord
  \/ ExecUpdateNext
  \/ ExecPublishCompleted
  \/ ExecSetFailed
  \/ ExecPublishFailed
  \/ ExecLoop
  \/ ExecReturn

\* handleMaxRetries, entered for a body with attemptCount >= MAX_RETRIES.
MaxRetriesHandling ==
  \/ MaxRetriesGet
  \/ MaxRetriesSetFailed
  \/ MaxRetriesRecord
  \/ MaxRetriesPublish

\* The pipeline: every message of the queue was sent by the Scanner with
\* attemptCount 0 and a redelivery carries the same body, so the Executor
\* stays on the route of attemptCount < MAX_RETRIES.
Next ==
  \/ Scanner
  \/ Executor
  \/ DeadLetter
  \/ Tick
  \/ \E p \in PlanIds : PlanDeleted(p)

Spec == Init /\ [][Next]_vars

\* The pipeline on a plan of the shortest period: one DAILY plan that is
\* due, so that a day on the clock makes it due again.
InitDaily ==
  /\ InitCommon
  /\ env = [STAGE |-> "dev", MAX_BATCH_SIZE |-> 25]
  /\ plans = [p \in PlanIds |->
                IF p = "p1"
                THEN [exists |-> TRUE, status |-> ACTIVE,
                      nextExecutionTime |-> T0 - 1,
                      frequency |-> "DAILY", amount |-> 100,
                      sourceOfFunds |-> "bank-1"]
                ELSE NoPlan]
  /\ queue = <<>>

SpecDaily == InitDaily /\ [][Next]_vars

\* The Scanner alone: two plans, so that a run fans out over several plans
\* and the batch size can cut the query result short.
InitScan ==
  /\ InitCommon
  /\ env \in [STAGE : {"dev"}, MAX_BATCH_SIZE : BatchSizes]
  /\ plans \in {f \in [PlanIds -> InitialPlans] :
                  IsDue(f["p1"], T0)}
  /\ queue = <<>>

NextScan ==
  \/ Scanner
  \/ Tick
  \/ \E p \in PlanIds : PlanDeleted(p)

SpecScan == InitScan /\ [][NextScan]_vars

\* The tasks an Executor invocation may be handed: any plan key, an
\* attemptCount below or at MAX_RETRIES.
ForeignMessages ==
  { [messageId |-> <<0, p>>,
     body |-> [userId |-> UserOf(p), planId |-> p, executionId |-> <<0, p>>,
               attemptCount |-> a],
     deduplicationId |-> <<0, p>>,
     groupId |-> UserOf(p),
     receiveCount |-> 0] : p \in PlanIds, a \in {0, MAX_RETRIES} }

\* The row a plan may have when its task is delivered.
DispatchedPlan(p) ==
  [exists |-> TRUE, status |-> PENDING_EXECUTION,
   nextExecutionTime |-> T0 - 1,
   frequency |-> IF p = "p1" THEN "DAILY" ELSE "MONTHLY", amount |-> 100,
   sourceOfFunds |-> IF p = "p1" THEN "bank-1" ELSE "card-2"]

\* The rows of plan p an Executor invocation may find: the row of p1 may
\* carry a frequency the code has no case for.
DispatchedPlans(p) ==
  {DispatchedPlan(p)}
    \cup (IF p = "p1"
          THEN {[DispatchedPlan(p) EXCEPT !.frequency = "QUARTERLY"]}
          ELSE {})

\* The Executor alone, on a queue that holds one task per plan; the plan
\* of a task may be missing.
InitExec ==
  /\ InitCommon
  /\ env \in [STAGE : Stages, MAX_BATCH_SIZE : {25}]
  /\ plans \in {f \in [PlanIds -> UNION {DispatchedPlans(p) : p \in PlanIds}
                                    \cup {NoPlan}] :
                  \A p \in PlanIds : f[p] \in DispatchedPlans(p) \cup {NoPlan}}
  /\ queue \in {<<m1, m2>> : m1 \in {m \in ForeignMessages : m.body.planId = "p1"},
                             m2 \in {m \in ForeignMessages : m.body.planId = "p2"}}

NextExec ==
  \/ Executor
  \/ ExecProcessStart
  \/ MaxRetriesHandling
  \/ DeadLetter
  \/ Tick
  \/ \E p \in PlanIds : PlanDeleted(p)

SpecExec == InitExec /\ [][NextExec]_vars

\* The reference instants the schedule is computed from: days in the
\* middle and at the end of short and long months, of leap and common
\* years, at the start, the middle and the last second of the day.
CalcDates ==
  { <<2023, 2, 28>>, <<2023, 12, 31>>, <<2024, 1, 15>>, <<2024, 1, 31>>,
    <<2024, 2, 15>>, <<2024, 2, 28>>, <<2024, 2, 29>>, <<2024, 3, 31>>,
    <<2024, 4, 30>>, <<2024, 12, 18>>, <<2024, 12, 25>>, <<2036, 2, 29>> }

CalcTimes == {0, 43200, 86399}

Instants ==
  { DaysFromCivil(d[1], d[2], d[3]) * SecondsPerDay + s :
      d \in CalcDates, s \in CalcTimes }

\* The Executor on one task for one plan, at any of the reference instants
\* and for every supported frequency.
InitCalc ==
  /\ now \in Instants
  /\ env = [STAGE |-> "dev", MAX_BATCH_SIZE |-> 25]
  /\ \E f \in SupportedFrequencies :
       plans = [p \in PlanIds |->
                  IF p = "p1"
                  THEN [DispatchedPlan(p) EXCEPT !.frequency = f,
                                                 !.nextExecutionTime = now - 1]
                  ELSE NoPlan]
  /\ queue \in {<<m>> : m \in {x \in ForeignMessages :
                                  x.body.planId = "p1" /\ x.body.attemptCount = 0}}
  /\ txns = {}
  /\ dlq = {}
  /\ events = {}
  /\ scan = [r \in Runs |-> IdleScan]
  /\ exec = IdleExec
  /\ exchangeClient = "null"
  /\ faults = 0
  /\ ticks = 0
  /\ sent = [e \in ExecutionIds |-> 0]
  /\ purchases = [e \in ExecutionIds |-> 0]
  /\ advances = [e \in ExecutionIds |-> 0]
  /\ lastWriter = [p \in PlanIds |-> <<"none", 0>>]

NextCalc ==
  \/ Executor
  \/ DeadLetter

SpecCalc == InitCalc /\ [][NextCalc]_vars

\* The Executor on the task of one dispatched plan whose owner may pause
\* or cancel it at any moment.
InitOwner ==
  /\ InitCommon
  /\ env = [STAGE |-> "dev", MAX_BATCH_SIZE |-> 25]
  /\ plans = [p \in PlanIds |->
                IF p = "p1" THEN DispatchedPlan(p) ELSE NoPlan]
  /\ queue \in {<<m>> : m \in {x \in ForeignMessages :
                                  x.body.planId = "p1" /\ x.body.attemptCount = 0}}

NextOwner ==
  \/ Executor
  \/ DeadLetter
  \/ \E p \in PlanIds : \E status \in {PAUSED, CANCELLED} :
       PlanStatusSet(p, status)

SpecOwner == InitOwner /\ [][NextOwner]_vars

\* The pipeline under fair scheduling when no call fails: the scanner rule
\* fires, the event source mapping keeps delivering what the queue holds
\* and the redrive policy moves what has used up its receives. The budget
\* of failing calls is spent from the start.
InitLive ==
  /\ now = T0
  /\ env = [STAGE |-> "dev", MAX_BATCH_SIZE |-> 25]
  /\ plans = [p \in PlanIds |->
                IF p = "p1"
                THEN [exists |-> TRUE, status |-> ACTIVE,
                      nextExecutionTime |-> T0 - 1,
                      frequency |-> "WEEKLY", amount |-> 100,
                      sourceOfFunds |-> "bank-1"]
                ELSE NoPlan]
  /\ queue = <<>>
  /\ txns = {}
  /\ dlq = {}
  /\ events = {}
  /\ scan = [r \in Runs |-> IdleScan]
  /\ exec = IdleExec
  /\ exchangeClient = "null"
  /\ faults = MaxFaults
  /\ ticks = 0
  /\ sent = [e \in ExecutionIds |-> 0]
  /\ purchases = [e \in ExecutionIds |-> 0]
  /\ advances = [e \in ExecutionIds |-> 0]
  /\ lastWriter = [p \in PlanIds |-> <<"none", 0>>]

\* The steps of a Scanner run none of whose calls fails.
ScannerDispatch ==
  \E r \in Runs :
    \/ ScanStart(r)
    \/ ScanQuery(r)
    \/ ScanFinish(r)
    \/ \E p \in PlanIds :
         ScanUpdate(r, p) \/ ScanSend(r, p) \/ ScanPublish(r, p)

NextLive ==
  \/ ScannerDispatch
  \/ Executor
  \/ DeadLetter

SpecLive ==
  /\ InitLive
  /\ [][NextLive]_vars
  /\ WF_vars(ScannerDispatch)
  /\ WF_vars(Executor)
  /\ WF_vars(DeadLetter)

\* ----------------------------------------------------------------------
\* Properties
\* ----------------------------------------------------------------------

\* Tasks for plan p that run r has enqueued and that are in the queue.
QueuedBy(r, p) ==
  {i \in 1..Len(queue) : queue[i].body.executionId = ExecutionId(r, p)}

\* C1: a Scanner run that completes without any failed call, with no more
\* due plans than the batch size, has processed every plan that was ACTIVE
\* and due at its query: the plan's task was enqueued exactly once by the
\* run, and the plan's status is PENDING_EXECUTION as long as the run's
\* write is the last write of the row.
C1_ScanSchedulesEveryDuePlan ==
  \A r \in Runs :
    (scan[r].pc = "done"
       /\ Cardinality(scan[r].eligible) <= env.MAX_BATCH_SIZE)
    => \A p \in scan[r].eligible :
         /\ scan[r].item[p] = "fulfilled"
         /\ sent[ExecutionId(r, p)] = 1
         /\ Cardinality(QueuedBy(r, p)) = 1
         /\ queue[CHOOSE i \in QueuedBy(r, p) : TRUE].body.attemptCount = 0
         /\ lastWriter[p] = <<"scanner", r>>
              => plans[p].status = PENDING_EXECUTION

\* A run has completed cleanly over two due plans.
C1_Witness ==
  \E r \in Runs :
    /\ scan[r].pc = "done"
    /\ scan[r].eligible = PlanIds
    /\ \A p \in PlanIds : plans[p].status = PENDING_EXECUTION
    /\ Len(queue) >= 2

\* C2: a Scanner run processes (writes the status of, enqueues a task for)
\* only plans that were ACTIVE with nextExecutionTime <= now at its query.
C2_OnlyDuePlansTouched ==
  \A r \in Runs : \A p \in PlanIds :
    (\/ scan[r].item[p] # "none"
     \/ sent[ExecutionId(r, p)] > 0
     \/ lastWriter[p] = <<"scanner", r>>)
    => p \in scan[r].eligible

\* A run has finished while a paused (or not yet due) plan sat in the
\* table untouched, and another plan was scheduled.
C2_Witness ==
  \E r \in Runs : \E p, q \in PlanIds :
    /\ scan[r].pc = "done"
    /\ sent[ExecutionId(r, p)] = 1
    /\ plans[q].exists
    /\ q \notin scan[r].eligible
    /\ plans[q].status = PAUSED \/ plans[q].nextExecutionTime > scan[r].now
    /\ lastWriter[q] = <<"none", 0>>

\* C3 (as claimed): of two overlapping runs that both read the same due
\* ACTIVE plan and see no failed call, at most one enqueues a task for it.
C3_OnlyOneRunEnqueues ==
  \A r1, r2 \in Runs : \A p \in PlanIds :
    (/\ r1 # r2
     /\ faults = 0
     /\ scan[r1].pc = "processing" /\ scan[r2].pc = "processing"
     /\ scan[r1].now = scan[r2].now
     /\ scan[r1].item[p] # "none" /\ scan[r2].item[p] # "none")
    => ~(sent[ExecutionId(r1, p)] > 0 /\ sent[ExecutionId(r2, p)] > 0)

\* The record, and the task, of the processExecutionEvent call that the
\* attempt history exec.att describes: the current one, or the one just
\* finished when the loop has moved on.
AttemptRecord ==
  exec.batch[IF exec.pc = "start" THEN exec.idx - 1 ELSE exec.idx]

AttemptTask == AttemptRecord.body

\* processExecutionEvent has returned or thrown for AttemptRecord.
AttemptEnded ==
  /\ exec.pc \in {"ok", "thrown", "start", "return"}
  /\ exec.att.route # "none"

\* The handler's loop has dealt with the outcome of AttemptRecord.
AttemptSettled ==
  /\ exec.pc \in {"start", "return"}
  /\ exec.att.route # "none"

CompletedFor(e) ==
  {t \in txns : t.executionId = e /\ t.status = "COMPLETED"}

\* C4 (as claimed): over all deliveries of one task, at most one COMPLETED
\* transaction is recorded and the schedule is advanced at most once.
C4_AtMostOneCompletion ==
  \A e \in ExecutionIds :
    /\ Cardinality(CompletedFor(e)) <= 1
    /\ advances[e] <= 1

\* The number of days of month m of year y.
MonthLength(y, m) ==
  (IF m = 12 THEN DaysFromCivil(y + 1, 1, 1) ELSE DaysFromCivil(y, m + 1, 1))
    - DaysFromCivil(y, m, 1)

\* The schedule the spec's advance gives: one, seven or fourteen days, or
\* one calendar month: the same day and time of day in the month after the
\* reference month, on the last day of that month when it is shorter
\* (2024-01-31 gives 2024-02-29).
SpecAdvance(f, t) ==
  CASE f = "DAILY"    -> t + 86400
    [] f = "WEEKLY"   -> t + 604800
    [] f = "BIWEEKLY" -> t + 1209600
    [] f = "MONTHLY"  ->
         LET c  == CivilFromDays(t \div 86400)
             y2 == IF c.m = 12 THEN c.y + 1 ELSE c.y
             m2 == IF c.m = 12 THEN 1 ELSE c.m + 1
             d2 == Min(c.d, MonthLength(y2, m2))
         IN  DaysFromCivil(y2, m2, d2) * 86400 + (t % 86400)

\* C5 (as claimed): when a task with attemptCount < MAX_RETRIES has been
\* processed, its plan was found (with a frequency advance is defined
\* for), the purchase succeeded and no store or publish call of the
\* attempt failed, then the attempt did not throw, it recorded exactly one
\* transaction, COMPLETED and for the task's executionId, the plan row is
\* ACTIVE with nextExecutionTime = advance(frequency, now), now being the
\* clock reading the handler computed it from, and the record is not in
\* batchItemFailures.
C5_SuccessfulExecution ==
  (/\ AttemptEnded
   /\ exec.att.route = "normal"
   /\ AttemptTask.attemptCount < MAX_RETRIES
   /\ exec.plan.frequency \in SupportedFrequencies
   /\ exec.att.purchases = 1
   /\ exec.result.success
   /\ exec.att.failedCalls = 0)
  => LET p == AttemptTask.planId
     IN  /\ exec.pc # "thrown"
         /\ exec.att.txns = 1
         /\ exec.txn \in txns
         /\ exec.txn.status = "COMPLETED"
         /\ exec.txn.executionId = AttemptTask.executionId
         /\ plans[p].exists =>
              /\ plans[p].status = ACTIVE
              /\ plans[p].nextExecutionTime =
                   SpecAdvance(plans[p].frequency, exec.att.referenceTime)
         /\ ~InFailures(AttemptRecord)

\* C6: when the purchase of a task returned success = false and no store
\* or publish call of the attempt failed, then once the attempt has thrown
\* a FAILED transaction with the result's errorMessage is recorded for the
\* executionId, the plan row (if still there) is FAILED, and the loop puts
\* the record in batchItemFailures.
C6_FailedPurchaseRecorded ==
  (/\ AttemptEnded
   /\ exec.att.route = "normal"
   /\ exec.att.purchases = 1
   /\ ~exec.result.success
   /\ exec.att.failedCalls = 0)
  => LET p == AttemptTask.planId
     IN  /\ exec.pc # "ok"
         /\ AttemptSettled => InFailures(AttemptRecord)
         /\ \E t \in txns :
              /\ t.executionId = AttemptTask.executionId
              /\ t.status = "FAILED"
              /\ t.errorMessage = exec.result.errorMessage
              /\ t.errorMessage = "Exchange API temporary error"
         /\ plans[p].exists => plans[p].status = FAILED

\* A failed purchase has been reported as a batch item failure.
C6_Witness ==
  /\ AttemptSettled
  /\ exec.att.route = "normal"
  /\ exec.att.outcome = "purchaseFailed"
  /\ InFailures(AttemptRecord)
  /\ plans[AttemptTask.planId].status = FAILED

\* C7 (as claimed): a task with attemptCount >= MAX_RETRIES whose plan
\* exists leads to no purchase, a FAILED plan, one FAILED transaction with
\* the maximum-retries message, and an acknowledged task.
C7_MaxRetriesAcknowledged ==
  (/\ AttemptEnded
   /\ exec.att.route = "maxRetries"
   /\ exec.plan.exists)
  => LET p == AttemptTask.planId
     IN  /\ exec.pc # "thrown"
         /\ ~InFailures(AttemptRecord)
         /\ exec.att.purchases = 0
         /\ exec.att.txns = 1
         /\ exec.txn \in txns
         /\ exec.txn.status = "FAILED"
         /\ exec.txn.errorMessage = MaxRetriesMessage
         /\ plans[p].exists => plans[p].status = FAILED

\* C8 (as claimed): in max-retries handling a missing plan is treated as
\* resolved: nothing is recorded, nothing is thrown, the task is
\* acknowledged.
C8_MissingPlanResolved ==
  (/\ exec.att.route = "maxRetries"
   /\ exec.att.outcome = "notFound")
  => /\ exec.pc # "thrown"
     /\ exec.att.txns = 0
     /\ AttemptSettled => ~InFailures(AttemptRecord)

\* C9: when the plan of a task with attemptCount < MAX_RETRIES is not in
\* the table, the attempt throws before any other call: no purchase, no
\* plan write, no transaction, no event; the record goes to
\* batchItemFailures.
C9_MissingPlanFailsTask ==
  (/\ exec.att.route = "normal"
   /\ exec.att.outcome = "notFound")
  => /\ AttemptTask.attemptCount < MAX_RETRIES
     /\ exec.pc = "thrown" \/ (AttemptSettled /\ InFailures(AttemptRecord))
     /\ exec.att.purchases = 0
     /\ exec.att.planWrites = 0
     /\ exec.att.txns = 0
     /\ exec.att.events = 0
     /\ exec.plan = NoPlan
     /\ purchases[AttemptTask.executionId] <= AttemptRecord.receiveCount - 1

\* The task of a missing plan has been reported as a batch item failure.
C9_Witness ==
  /\ AttemptSettled
  /\ exec.att.route = "normal"
  /\ exec.att.outcome = "notFound"
  /\ InFailures(AttemptRecord)
  /\ ~plans[AttemptTask.planId].exists

\* C10 (as claimed): no step changes the status of a plan that is FAILED.
C10_FailedIsTerminal ==
  [][\A p \in PlanIds :
       (plans[p].exists /\ plans[p].status = FAILED /\ plans'[p].exists)
       => plans'[p].status = FAILED]_vars

\* The status changes of the plan state machine:
\* ACTIVE -> PENDING_EXECUTION -> EXECUTING -> {ACTIVE, FAILED}.
StateMachine ==
  { <<ACTIVE, PENDING_EXECUTION>>, <<PENDING_EXECUTION, EXECUTING>>,
    <<EXECUTING, ACTIVE>>, <<EXECUTING, FAILED>> }

\* C11 (as claimed): every step of the Scanner or the Executor that changes
\* the status of a plan row changes it along the plan state machine.
C11_OnlyStateMachineTransitions ==
  [][\A p \in PlanIds :
       (/\ plans[p].exists
        /\ plans'[p].exists
        /\ plans'[p].status # plans[p].status)
       => <<plans[p].status, plans'[p].status>> \in StateMachine]_vars

\* The handler of run r has returned or thrown.
ScanEnded(r) == scan[r].pc \in {"done", "error"}

\* The plans the query of run r returned.
Batch(r) == {p \in PlanIds : scan[r].item[p] # "none"}

\* C12 (as claimed): a run in which the status update of a plan failed its
\* precondition, and in which no call failed otherwise, completes
\* successfully.
C12_PreconditionFailureIsNoRunFailure ==
  \A r \in Runs :
    (/\ ScanEnded(r)
     /\ \E p \in Batch(r) : scan[r].failed[p] = "precondition"
     /\ \A q \in Batch(r) : scan[r].failed[q] \in {"none", "precondition"})
    => scan[r].pc = "done"

\* C13: when a run has ended, every plan of its batch has been processed
\* to its own end whatever happened to the others: a plan none of whose
\* calls failed was enqueued once and set PENDING_EXECUTION, and a plan
\* whose status update failed has no task.
C13_PlansAreIsolated ==
  \A r \in Runs :
    ScanEnded(r) =>
      \A q \in Batch(r) :
        /\ scan[r].failed[q] = "none" =>
             /\ scan[r].item[q] = "fulfilled"
             /\ sent[ExecutionId(r, q)] = 1
             /\ lastWriter[q] = <<"scanner", r>> =>
                  plans[q].status = PENDING_EXECUTION
        /\ scan[r].failed[q] \in {"precondition", "update"} =>
             sent[ExecutionId(r, q)] = 0

\* A run has ended in which one plan failed and another was scheduled.
C13_Witness ==
  \E r \in Runs : \E p, q \in PlanIds :
    /\ ScanEnded(r)
    /\ p # q
    /\ scan[r].failed[p] \in {"precondition", "update", "send", "publish"}
    /\ scan[r].item[q] = "fulfilled"
    /\ sent[ExecutionId(r, q)] = 1
    /\ sent[ExecutionId(r, p)] = 0
    /\ plans[q].status = PENDING_EXECUTION

\* C14: when the enqueue or the publish for a plan failed after its status
\* update, the catch block's write (if it succeeded, and until someone
\* else writes the row) leaves the plan ACTIVE, and the run ends with an
\* error.
C14_RevertAndRunError ==
  \A r \in Runs : \A p \in PlanIds :
    (/\ scan[r].item[p] = "rejected"
     /\ scan[r].failed[p] \in {"send", "publish"})
    => /\ (scan[r].revert[p] = "written" /\ lastWriter[p] = <<"scanner", r>>)
            => plans[p].status = ACTIVE
       /\ ScanEnded(r) => scan[r].pc = "error"

\* A run has ended with an error after the publish for a plan failed and
\* the plan was written back to ACTIVE, while another plan was scheduled.
C14_Witness ==
  \E r \in Runs : \E p, q \in PlanIds :
    /\ scan[r].pc = "error"
    /\ scan[r].failed[p] = "publish"
    /\ scan[r].revert[p] = "written"
    /\ plans[p].status = ACTIVE
    /\ sent[ExecutionId(r, p)] = 1
    /\ scan[r].item[q] = "fulfilled"

\* C15: over all deliveries of one task the exchange client's purchase is
\* called at most MAX_RETRIES times.
C15_PurchasesBounded ==
  \A e \in ExecutionIds : purchases[e] <= MAX_RETRIES

\* A task whose purchase was tried MAX_RETRIES times has been moved to the
\* dead-letter queue.
C15_Witness ==
  \E m \in dlq :
    /\ purchases[m.body.executionId] = MAX_RETRIES
    /\ m.body.attemptCount < MAX_RETRIES
    /\ m.receiveCount = maxReceiveCount

\* The tasks for plan p that are waiting in the execution queue (first
\* delivery or redelivery) or held by the running Executor invocation.
TasksOutstanding(p) ==
  {<<"queued", i>> : i \in {j \in 1..Len(queue) : queue[j].body.planId = p}}
    \cup {<<"inflight", i>> : i \in {j \in 1..Len(exec.batch) :
                                       exec.batch[j].body.planId = p}}

\* C16 (as claimed): a plan whose status is ACTIVE has no task in the
\* queue and none in flight.
C16_ActiveMeansNoTask ==
  \A p \in PlanIds :
    (plans[p].exists /\ plans[p].status = ACTIVE) => TasksOutstanding(p) = {}

\* C17 (as claimed): when the only call of an attempt that failed is an
\* event publish, the attempt ends as it does when the publish succeeds:
\* the purchase was made and its transaction recorded, a successful
\* purchase leaves the plan ACTIVE and the task acknowledged, a failed one
\* leaves the plan FAILED.
C17_PublishFailureChangesNothing ==
  (/\ AttemptEnded
   /\ exec.att.route = "normal"
   /\ exec.att.outcome = "publishError"
   /\ exec.att.failedCalls = 1)
  => LET p == AttemptTask.planId
     IN  /\ exec.att.purchases = 1
         /\ exec.att.txns = 1
         /\ exec.txn \in txns
         /\ exec.result.success =>
              /\ exec.pc # "thrown"
              /\ ~InFailures(AttemptRecord)
              /\ plans[p].exists => plans[p].status = ACTIVE
         /\ (~exec.result.success /\ plans[p].exists) =>
              plans[p].status = FAILED

\* C18 (as claimed): when the only call of an attempt that failed is a
\* store call, the task is reported as failed and the attempt has left no
\* plan write and no transaction behind.
C18_StoreFailureLeavesNoTrace ==
  (/\ AttemptEnded
   /\ exec.att.route = "normal"
   /\ exec.att.outcome = "storeError"
   /\ exec.att.failedCalls = 1)
  => LET p == AttemptTask.planId
     IN  /\ exec.pc = "thrown" \/ InFailures(AttemptRecord)
         /\ exec.att.planWrites = 0
         /\ exec.att.txns = 0
         /\ (exec.plan.exists /\ plans[p].exists) =>
              plans[p].status = exec.plan.status

\* C19 (as claimed): an attempt that ends on a frequency the code does not
\* support is fatal without retry: its record is not put in
\* batchItemFailures.
C19_UnsupportedFrequencyNotRetried ==
  (AttemptSettled /\ exec.att.outcome = "unsupportedFrequency")
  => ~InFailures(AttemptRecord)

\* C20: the schedule computed for a DAILY, WEEKLY or BIWEEKLY plan is the
\* reference instant plus 86400, 604800 or 1209600 seconds, a whole number
\* of seconds, and it is what the plan row is given.
C20_FixedPeriodAdvance ==
  (/\ exec.att.referenceTime # 0
   /\ exec.plan.frequency \in {"DAILY", "WEEKLY", "BIWEEKLY"})
  => LET t == exec.att.referenceTime
         f == exec.plan.frequency
     IN  /\ exec.nextExecutionTime \in Nat
         /\ f = "DAILY" => exec.nextExecutionTime = t + 86400
         /\ f = "WEEKLY" => exec.nextExecutionTime = t + 604800
         /\ f = "BIWEEKLY" => exec.nextExecutionTime = t + 1209600
         /\ exec.pc = "pubCompleted" =>
              plans[Task.planId].nextExecutionTime = exec.nextExecutionTime

\* The schedule of a daily plan was computed in the last second of a leap
\* day, and that of a biweekly plan across the end of a year.
C20_Witness ==
  /\ exec.pc = "pubCompleted"
  /\ \/ /\ exec.plan.frequency = "DAILY"
        /\ exec.att.referenceTime = DaysFromCivil(2024, 2, 29) * 86400 + 86399
        /\ exec.nextExecutionTime = DaysFromCivil(2024, 3, 1) * 86400 + 86399
     \/ /\ exec.plan.frequency = "BIWEEKLY"
        /\ exec.att.referenceTime = DaysFromCivil(2024, 12, 25) * 86400
        /\ exec.nextExecutionTime = DaysFromCivil(2025, 1, 8) * 86400

\* C21 (as claimed): the schedule computed for a MONTHLY plan lies in the
\* calendar month after the month of the reference instant, on the same
\* day of the month or, when that month is shorter, on its last day.
C21_MonthlyAdvanceClamped ==
  (/\ exec.att.referenceTime # 0
   /\ exec.plan.frequency = "MONTHLY")
  => LET c  == CivilFromDays(exec.att.referenceTime \div 86400)
         r  == CivilFromDays(exec.nextExecutionTime \div 86400)
         y2 == IF c.m = 12 THEN c.y + 1 ELSE c.y
         m2 == IF c.m = 12 THEN 1 ELSE c.m + 1
     IN  /\ r.y = y2
         /\ r.m = m2
         /\ r.d = Min(c.d, MonthLength(y2, m2))
         /\ exec.nextExecutionTime % 86400 = exec.att.referenceTime % 86400

\* C22: the transaction table only grows. Every step keeps each row the
\* table holds, unchanged, and the table it leaves has no two rows with
\* the same transactionId: an insert never overwrites a row.
C22_TransactionsOnlyGrow ==
  [][/\ txns \subseteq txns'
     /\ \A a \in txns' : \A b \in txns' :
          a.transactionId = b.transactionId => a = b]_vars

\* C22 is exercised: a redelivered task has been recorded a second time
\* next to the row of its first attempt.
C22_Witness ==
  \E a \in txns : \E b \in txns :
    /\ a.executionId = b.executionId
    /\ a.transactionId < b.transactionId

C24_ExternalStatusRespected ==
  [][\A p \in PlanIds :
       (/\ plans[p].exists
        /\ plans[p].status \in {PAUSED, CANCELLED})
       => /\ plans'[p].status \in {PAUSED, CANCELLED}
          /\ \A e \in ExecutionIds :
               e[2] = p => purchases'[e] = purchases[e]]_vars

\* C25: the handler works on the records of a batch one at a time, in
\* delivery order. While a record is being processed neither the position
\* in the batch nor the failure list changes; when its processing has
\* raised an error its messageId, and nothing else, is appended to the
\* failure list, otherwise the list is left alone; in both cases the
\* handler goes on with the next record, and it returns only after the
\* last one.
C25_BatchSequentialFailures ==
  [][/\ exec.pc \notin {"idle", "init", "ok", "thrown", "return"}
        => /\ exec'.batch = exec.batch
           /\ exec'.idx = exec.idx
           /\ exec'.failures = exec.failures
     /\ (exec.pc \in {"ok", "thrown"} /\ exec' # exec)
        => /\ exec'.batch = exec.batch
           /\ exec'.failures =
                IF exec.pc = "thrown"
                THEN Append(exec.failures, exec.batch[exec.idx].messageId)
                ELSE exec.failures
           /\ IF exec.idx < Len(exec.batch)
              THEN exec'.pc = "start" /\ exec'.idx = exec.idx + 1
              ELSE exec'.pc = "return"
     /\ (exec'.pc = "return" /\ exec.pc # "return")
        => exec.idx = Len(exec.batch)
     /\ (exec.pc = "idle" /\ exec'.pc # "idle")
        => /\ exec'.pc \in {"init", "start"}
           /\ exec'.idx = 1
           /\ exec'.failures = <<>>
           /\ exec'.batch # <<>>
     /\ (exec.pc = "init" /\ exec' # exec)
        => \/ exec' = IdleExec
           \/ /\ exec'.pc = "start"
              /\ exec'.batch = exec.batch
              /\ exec'.idx = 1
              /\ exec'.failures = <<>>]_vars

\* C25 is exercised: the processing of the first of two records raised an
\* error, the second was processed without one, and the handler returns
\* the first record's messageId alone.
C25_Witness ==
  /\ exec.pc = "return"
  /\ Len(exec.batch) = 2
  /\ exec.failures = <<exec.batch[1].messageId>>
  /\ exec.att.outcome = "success"

\* C26: purchaseBitcoin never raises an error to its caller. The step of
\* processExecutionEvent that calls it always goes on to record the result
\* it returned, and a result with success = false carries an errorMessage,
\* the time of the failure and the task's executionId, the idempotency key
\* of the request, as request id.
C26_PurchaseNeverThrows ==
  [][(exec.pc = "purchase" /\ exec' # exec)
     => /\ exec'.pc = "record"
        /\ exec'.att.outcome = "none"
        /\ exec'.att.failedCalls = 0
        /\ ~exec'.result.success
           => /\ exec'.result.errorMessage \notin {"NONE", ""}
              /\ exec'.result.timestamp = now
              /\ exec'.result.requestId = exec.batch[exec.idx].body.executionId]_vars

\* C26 is exercised: a purchase made after time has passed has failed and
\* its result is about to be recorded.
C26_Witness ==
  /\ exec.pc = "record"
  /\ ~exec.result.success
  /\ exec.att.purchases = 1
  /\ exec.result.timestamp = now
  /\ now > T0

\* C27 (as claimed): when the secret cannot be retrieved while the client
\* is created, a deployment of any stage other than prod gets the client
\* with the demo credentials; in prod the error propagates and no client
\* is created.
C27_DemoClientOutsideProduction ==
  [][(/\ exchangeClient = "null"
      /\ exec.pc = "init"
      /\ faults' = faults + 1)
     => IF env.STAGE # "prod"
        THEN exchangeClient' = "demo"
        ELSE exchangeClient' = "null" /\ exec'.pc = "idle"]_vars

\* The task of run r for plan p is in the queue or in the batch the
\* Executor is working on.
TaskOutstanding(r, p) ==
  \/ QueuedBy(r, p) # {}
  \/ \E i \in 1..Len(exec.batch) :
       exec.batch[i].body.executionId = ExecutionId(r, p)

\* C28: under fair scheduling and with no failing store, queue, publish
\* or secret call, a plan the Scanner has moved to PENDING_EXECUTION
\* eventually has status ACTIVE or FAILED, and the task the run sends for
\* it is eventually neither in the queue nor in flight: it was
\* acknowledged or moved to the dead-letter queue.
C28_DispatchedPlanSettles ==
  \A r \in Runs : \A p \in PlanIds :
    /\ (/\ plans[p].exists
         /\ plans[p].status = PENDING_EXECUTION
         /\ lastWriter[p] = <<"scanner", r>>)
        ~> (plans[p].status \in {ACTIVE, FAILED})
    /\ (/\ plans[p].exists
         /\ plans[p].status = PENDING_EXECUTION
         /\ lastWriter[p] = <<"scanner", r>>)
        ~> (/\ sent[ExecutionId(r, p)] > 0
            /\ ~TaskOutstanding(r, p))

\* C28 is exercised: the task of a dispatched plan has used up its
\* receives and was moved to the dead-letter queue, and the plan is FAILED.
C28_Witness ==
  \E r \in Runs : \E p \in PlanIds : \E m \in dlq :
    /\ m.body.executionId = ExecutionId(r, p)
    /\ ~TaskOutstanding(r, p)
    /\ plans[p].status = FAILED

\* C29 (as claimed): a task the Scanner wrote is not moved to the
\* dead-letter queue before it has reached max-retries handling: one of
\* its deliveries carried attemptCount >= MAX_RETRIES, for which
\* handleMaxRetries records a transaction with that attemptCount.
C29_MaxRetriesBeforeDeadLetter ==
  \A m \in dlq :
    sent[m.body.executionId] > 0
    => \/ m.body.attemptCount >= MAX_RETRIES
       \/ \E t \in txns : /\ t.executionId = m.body.executionId
                           /\ t.attemptCount >= MAX_RETRIES

\* C30 (as claimed): when a run of the Scanner has reverted a plan to
\* ACTIVE, no task the run created for the plan is in the queue, in flight
\* or was ever sent, so the plan's next dispatch is the only one for the
\* due occurrence.
C30_RevertedMeansNoTask ==
  \A r \in Runs : \A p \in PlanIds :
    scan[r].revert[p] = "written"
    => /\ sent[ExecutionId(r, p)] = 0
       /\ ~TaskOutstanding(r, p)

\* C31 (as claimed): a run of the Scanner writes ACTIVE to a plan only
\* when its own write of PENDING_EXECUTION for the plan succeeded, that is,
\* when the call that failed was the enqueue or the publish.
C31_RevertOnlyAfterOwnWrite ==
  \A r \in Runs : \A p \in PlanIds :
    scan[r].revert[p] = "written" => scan[r].failed[p] \in {"send", "publish"}

\* C32: the schedule of a plan is advanced no more often than COMPLETED
\* transactions were recorded for it. For every task, and so for every
\* plan, the number of schedule writes is at most the number of COMPLETED
\* rows of that task; the step that changes nextExecutionTime belongs to an
\* attempt on the normal route whose purchase succeeded and whose COMPLETED
\* row is in the table.
C32_AdvanceNeedsCompleted ==
  [][/\ \A e \in ExecutionIds :
          advances'[e] <= Cardinality({t \in txns' :
                                         /\ t.executionId = e
                                         /\ t.status = "COMPLETED"})
     /\ \A p \in PlanIds :
          (/\ plans'[p].exists
           /\ plans'[p].nextExecutionTime # plans[p].nextExecutionTime)
          => /\ exec.att.route = "normal"
             /\ exec.result.success
             /\ exec.txn \in txns
             /\ exec.txn.status = "COMPLETED"
             /\ exec.txn.planId = p
             /\ exec.txn.executionId = exec.batch[exec.idx].body.executionId]_vars

\* C32 is exercised: a plan's schedule has been advanced once, and a failed
\* purchase for another task was recorded without any advance.
C32_Witness ==
  \E e \in ExecutionIds : \E t \in txns :
    /\ advances[e] = 1
    /\ t.status = "FAILED"
    /\ advances[t.executionId] = 0

\* C33: no step of the Scanner or the Executor removes a plan row or
\* changes its amount or frequency, and the only step that changes
\* nextExecutionTime is the Executor's schedule write after a successful
\* purchase, which leaves the plan ACTIVE: the writes of PENDING_EXECUTION,
\* EXECUTING and FAILED and the Scanner's revert change the status alone.
C33_StatusWritesKeepSchedule ==
  [][(scan' # scan \/ exec' # exec)
     => \A p \in PlanIds :
          plans[p].exists
          => /\ plans'[p].exists
             /\ plans'[p].amount = plans[p].amount
             /\ plans'[p].frequency = plans[p].frequency
             /\ plans'[p].nextExecutionTime # plans[p].nextExecutionTime
                => /\ exec.pc = "updateNext"
                   /\ exec.result.success
                   /\ exec.batch[exec.idx].body.planId = p
                   /\ plans'[p].status = ACTIVE]_vars

\* C33 is exercised: the Scanner has reverted the plan and dispatched it
\* again, the Executor has set it EXECUTING and then FAILED, and the plan
\* still has the schedule it started with.
C33_Witness ==
  \E p \in PlanIds : \E r \in Runs :
    /\ scan[r].revert[p] = "written"
    /\ plans[p].exists
    /\ plans[p].status = FAILED
    /\ lastWriter[p] = <<"executor", 0>>
    /\ plans[p].nextExecutionTime = T0 - 1
    /\ plans[p].frequency = "WEEKLY"
    /\ plans[p].amount = 100

\* C34 (as claimed): the events of an executionId are published in the
\* order EXECUTION_SCHEDULED, EXECUTION_STARTED, EXECUTION_COMPLETED or
\* EXECUTION_FAILED: when a later event of a task of the Scanner has been
\* published, the earlier ones have been published too.
C34_EventsInOrder ==
  \A e \in ExecutionIds :
    sent[e] > 0
    => /\ Event(EXECUTION_STARTED, e) \in events
          => Event(EXECUTION_SCHEDULED, e) \in events
       /\ (\/ Event(EXECUTION_COMPLETED, e) \in events
           \/ Event(EXECUTION_FAILED, e) \in events)
          => Event(EXECUTION_STARTED, e) \in events

\* C35: EXECUTION_SCHEDULED is published for a task only after the run's
\* status update and its enqueue of the task have succeeded: when the
\* event of a run's task has been published, the task was sent and no
\* earlier call of the run for that plan has failed; when the update or
\* the enqueue failed, the event is not published and the task was not
\* sent.
C35_ScheduledOnlyAfterEnqueue ==
  \A r \in Runs : \A p \in PlanIds :
    /\ Event(EXECUTION_SCHEDULED, ExecutionId(r, p)) \in events
       => /\ sent[ExecutionId(r, p)] = 1
          /\ scan[r].failed[p] = "none"
          /\ scan[r].item[p] = "fulfilled"
    /\ scan[r].failed[p] \in {"precondition", "update", "send"}
       => /\ Event(EXECUTION_SCHEDULED, ExecutionId(r, p)) \notin events
          /\ sent[ExecutionId(r, p)] = 0

\* C35 is exercised: in one run the enqueue for one plan failed and no
\* event was published for it, and the event of another plan's task was
\* published after its enqueue.
C35_Witness ==
  \E r \in Runs : \E p \in PlanIds : \E q \in PlanIds :
    /\ scan[r].failed[p] = "send"
    /\ scan[r].item[p] = "rejected"
    /\ Event(EXECUTION_SCHEDULED, ExecutionId(r, p)) \notin events
    /\ Event(EXECUTION_SCHEDULED, ExecutionId(r, q)) \in events
    /\ QueuedBy(r, q) # {}

\* C36: every task the Scanner enqueues has attemptCount 0, the userId and
\* planId of the plan it was created for and an executionId no other task
\* ever enqueued has; its deduplication id is the executionId and its
\* message group is the userId.
C36_EnqueuedTaskWellFormed ==
  /\ \A e \in ExecutionIds : sent[e] <= 1
  /\ \A i \in 1..Len(queue) :
       LET m == queue[i]
       IN  /\ m.body.attemptCount = 0
           /\ m.body.planId \in scan[m.body.executionId[1]].eligible
           /\ m.body.planId = m.body.executionId[2]
           /\ m.body.userId = UserOf(m.body.planId)
           /\ m.deduplicationId = m.body.executionId
           /\ m.groupId = m.body.userId
           /\ sent[m.body.executionId] = 1
           /\ \A j \in 1..Len(queue) :
                j # i => queue[j].body.executionId # m.body.executionId

\* C36 is exercised: two runs have each enqueued a task for the same plan,
\* and one of them a task for the other plan.
C36_Witness ==
  /\ Len(queue) = 3
  /\ \E i \in 1..3 : \E j \in 1..3 :
       /\ queue[i].body.planId = queue[j].body.planId
       /\ queue[i].body.executionId # queue[j].body.executionId

\* C37: the purchase call of an attempt carries the task's executionId as
\* clientRequestId and the owner, amount and funding source of the plan as
\* the attempt loaded it; the calls made over the deliveries of one task
\* all carry that task's executionId, so every purchase transaction of a
\* task is matched by a call counted under its executionId.
C37_PurchaseKeyIsExecutionId ==
  /\ exec.att.purchases = 1
     => /\ exec.request.clientRequestId = AttemptTask.executionId
        /\ exec.request.userId = AttemptTask.userId
        /\ exec.request.amount = exec.plan.amount
        /\ exec.request.sourceOfFunds = exec.plan.sourceOfFunds
        /\ exec.plan.exists
  /\ \A e \in ExecutionIds :
       Cardinality({t \in txns : /\ t.executionId = e
                                 /\ t.status \in {"COMPLETED", "FAILED"}
                                 /\ t.attemptCount < MAX_RETRIES})
         <= purchases[e]

\* C37 is exercised: the second delivery of a task has made its purchase
\* call with the same key as the first, for a plan funded from a source
\* other than the first plan's.
C37_Witness ==
  /\ exec.att.purchases = 1
  /\ exec.request.sourceOfFunds = "card-2"
  /\ purchases[exec.request.clientRequestId] = 2
  /\ AttemptRecord.receiveCount = 2

\* C38: a run of the Scanner processes at most MAX_BATCH_SIZE plans. No
\* step of the run changes a plan outside its query result or sends a task
\* for it, so a due plan beyond the cap stays as it is; a run whose query
\* finds no due plan completes at once, without error and without a write,
\* a message or an event.
C38_BatchSizeCap ==
  [][\A r \in Runs :
       /\ Cardinality({p \in PlanIds : scan'[r].item[p] # "none"})
            <= env.MAX_BATCH_SIZE
       /\ \A p \in PlanIds :
            (scan'[r] # scan[r] /\ scan'[r].item[p] = "none")
            => /\ plans'[p] = plans[p]
               /\ sent'[ExecutionId(r, p)] = 0
               /\ Event(EXECUTION_SCHEDULED, ExecutionId(r, p)) \notin events'
       /\ (/\ scan[r].pc = "query"
           /\ scan'[r].pc # "query"
           /\ faults' = faults
           /\ \A p \in PlanIds : ~IsDue(plans[p], scan[r].now))
          => /\ scan'[r].pc = "done"
             /\ \A p \in PlanIds : scan'[r].item[p] = "none"
             /\ plans' = plans
             /\ queue' = queue
             /\ events' = events]_vars

\* C38 is exercised: with a batch size of 1 a run has completed after
\* dispatching one of two due plans, and the other is still ACTIVE and due.
C38_Witness ==
  \E r \in Runs : \E p \in PlanIds : \E o \in PlanIds :
    /\ env.MAX_BATCH_SIZE = 1
    /\ scan[r].pc = "done"
    /\ scan[r].item[p] = "fulfilled"
    /\ scan[r].item[o] = "none"
    /\ o \in scan[r].eligible
    /\ IsDue(plans[o], scan[r].now)
    /\ lastWriter[o] = <<"none", 0>>

\* C39: the Exchange Client of an Executor process is created at most once
\* and then kept (it goes only with its process, between two invocations,
\* and the new process has none); it is created only at the start of an
\* invocation, before the first record; no invocation processes a record
\* without a client; an invocation whose creation of the client fails ends
\* before any record is processed (no plan write, purchase, transaction or
\* event), leaves the client unset and hands the records of its batch back
\* to the queue; and every invocation that starts without a client
\* attempts the creation.
C39_ClientCreatedOnce ==
  [][/\ (exchangeClient # "null" /\ exchangeClient' # exchangeClient)
        => exchangeClient' = "null" /\ exec.pc = "idle" /\ exec' = exec
     /\ (exchangeClient = "null" /\ exchangeClient' # exchangeClient)
        => exec.pc = "init" /\ exec'.pc = "start" /\ exec'.idx = 1
     /\ exec'.pc \notin {"idle", "init"} => exchangeClient' # "null"
     /\ (/\ exec.pc = "init"
         /\ exchangeClient = "null"
         /\ faults' = faults + 1
         /\ exchangeClient' = "null")
        => /\ exec' = IdleExec
           /\ plans' = plans
           /\ purchases' = purchases
           /\ txns' = txns
           /\ events' = events
           /\ queue' = exec.batch \o queue
     /\ (exec.pc = "idle" /\ exec'.pc # "idle" /\ exchangeClient = "null")
        => exec'.pc = "init"]_vars

\* C39 is exercised: outside dev an invocation has received a record, the
\* creation of the client has failed, and the record is back in the queue
\* with the client unset and nothing written.
C39_Witness ==
  /\ env.STAGE # "dev"
  /\ exec.pc = "idle"
  /\ exchangeClient = "null"
  /\ faults = 1
  /\ Len(queue) = 2
  /\ queue[1].receiveCount = 1
  /\ txns = {}
  /\ events = {}


====
